---- MODULE Spec2Model ----
(***************************************************************************)
(* Model of the two WebAssembly facade modules of fontra's webapp:         *)
(*   src-js/webapp/fontra_wasm_core_simple.py  (the dependency-free core)  *)
(*   src-js/webapp/fontra_wasm_core.py         (the delegating module)     *)
(*                                                                         *)
(* Python values are tagged records, so that a value of any JSON type can  *)
(* stand wherever the code accepts one:                                    *)
(*   None  [k |-> "null"]            bool  [k |-> "bool", b]               *)
(*   int   [k |-> "num", hi, lo]     str   [k |-> "str", s]                *)
(*   list  [k |-> "list", items]                                           *)
(*   dict  [k |-> "obj", keys, m]: the keys in insertion order, and the    *)
(*         value m[key] of each                                            *)
(*   float [k |-> "float", c, neg, q, e]: c = "fin" is the finite float of *)
(*         magnitude q / 2^e, in lowest terms, and sign neg (so that -0.0  *)
(*         is a value), c = "inf" an infinity of sign neg, c = "nan"       *)
(*         not-a-number                                                    *)
(* An int [hi, lo] stands for hi * 10^4299 + lo with |lo| far below        *)
(* 10^4299: Python ints are unbounded, and the only magnitude the code's   *)
(* behaviour depends on is CPython's 4300-digit limit of int <-> str       *)
(* conversion, which json.loads and json.dumps run into.                   *)
(* A finite float is a fraction with a power of two below it, as in the    *)
(* machine; the sums and products of the model are exact, which those of   *)
(* the machine are as long as the numerator fits its 53 bits, and those of *)
(* the small fractions the model runs on do.                               *)
(* A call that may raise yields Ok(v) or Raise(message).                   *)
(* log is a history variable: how each call served so far ended; call,     *)
(* path, path_a, path_b, result_path, result and output are the latest     *)
(* call, the locals of its method when it returned, and what it handed     *)
(* back.                                                                   *)
(***************************************************************************)
EXTENDS Integers, Sequences, FiniteSets, TLC

VARIABLES loaded, available, processor, call, path, path_a, path_b,
          result_path, result, output, log, frames

vars == <<loaded, available, processor, call, path, path_a, path_b,
          result_path, result, output, log, frames>>

\* ------------------------------------------------------------- bounds
MaxContours == 2
MaxPoints == 2
MaxCoord == 1
MaxDelta == 1
MaxCalls == 3

\* ------------------------------------------------------ Python values
JNull == [k |-> "null"]
JBool(b) == [k |-> "bool", b |-> b]
JNum(hi, lo) == [k |-> "num", hi |-> hi, lo |-> lo]
JInt(n) == JNum(0, n)
JStr(s) == [k |-> "str", s |-> s]
JList(items) == [k |-> "list", items |-> items]
JObj(keys, m) == [k |-> "obj", keys |-> keys, m |-> m]
Inf(sign) == [k |-> "float", c |-> "inf", neg |-> sign < 0, q |-> 0, e |-> 0]
NegZero == [k |-> "float", c |-> "fin", neg |-> TRUE, q |-> 0, e |-> 0]
NaN == [k |-> "float", c |-> "nan", neg |-> FALSE, q |-> 0, e |-> 0]

\* The finite float n / 2^e, in lowest terms (0.0 for n = 0); Flt(n) is n
\* quarters.
RECURSIVE Dyadic(_, _)
Dyadic(n, e) ==
    IF e > 0 /\ n % 2 = 0 THEN Dyadic(n \div 2, e - 1)
    ELSE [k |-> "float", c |-> "fin", neg |-> n < 0,
          q |-> IF n < 0 THEN -n ELSE n, e |-> e]

Flt(n) == Dyadic(n, 2)

Ok(v) == [ok |-> TRUE, val |-> v]
Raise(e) == [ok |-> FALSE, err |-> e]

\* A local of a method that was never bound (the method raised before).
Unbound == [k |-> "unbound"]

PyTypeName(v) ==
    CASE v.k = "null" -> "NoneType"
      [] v.k = "bool" -> "bool"
      [] v.k = "num" -> "int"
      [] v.k = "str" -> "str"
      [] v.k = "list" -> "list"
      [] v.k = "obj" -> "dict"
      [] v.k = "float" -> "float"

\* bool(v)
Truthy(v) ==
    CASE v.k = "null" -> FALSE
      [] v.k = "bool" -> v.b
      [] v.k = "num" -> ~(v.hi = 0 /\ v.lo = 0)
      [] v.k = "str" -> v.s # ""
      [] v.k = "list" -> v.items # <<>>
      [] v.k = "obj" -> DOMAIN v.m # {}
      [] v.k = "float" -> ~(v.c = "fin" /\ v.q = 0)

\* The int a bool counts as in arithmetic and comparisons.
ToNum(v) == IF v.k = "bool" THEN JInt(IF v.b THEN 1 ELSE 0) ELSE v

IsInt(v) == v.k \in {"num", "bool"}

IsNumber(v) == v.k \in {"num", "bool", "float"}

\* The characters of the strings the model iterates over.
CharsOf(s) ==
    CASE s = "" -> <<>>
      [] s = "a" -> <<"a">>
      [] s = "line" -> <<"l", "i", "n", "e">>
      [] s = "curve" -> <<"c", "u", "r", "v", "e">>

\* iter(v): the items of a list, the characters of a str, the keys of a dict.
PyIter(v) ==
    CASE v.k = "list" -> Ok(v.items)
      [] v.k = "str" -> Ok([i \in DOMAIN CharsOf(v.s) |-> JStr(CharsOf(v.s)[i])])
      [] v.k = "obj" -> Ok([i \in DOMAIN v.keys |-> JStr(v.keys[i])])
      [] OTHER -> Raise("'" \o PyTypeName(v) \o "' object is not iterable")

\* A comprehension or loop over results: the first raise ends it.
Collect(rs) ==
    IF \A i \in DOMAIN rs : rs[i].ok
    THEN Ok([i \in DOMAIN rs |-> rs[i].val])
    ELSE rs[CHOOSE i \in DOMAIN rs :
                ~rs[i].ok /\ \A j \in DOMAIN rs : j < i => rs[j].ok]

\* data.get(key, default); a value that is no dict has no attribute 'get'.
Get(data, key, default) ==
    IF key \in DOMAIN data.m THEN data.m[key] ELSE default

NoGet(data) == Raise("'" \o PyTypeName(data) \o "' object has no attribute 'get'")

\* --------------------------------------------------------- arithmetic
RECURSIVE RepStr(_, _)
RepStr(s, n) == IF n <= 0 THEN "" ELSE s \o RepStr(s, n - 1)

RECURSIVE RepSeq(_, _)
RepSeq(s, n) == IF n <= 0 THEN <<>> ELSE s \o RepSeq(s, n - 1)

\* float(v) of an int or a float: an int beyond the range of floats (every
\* int with hi # 0 is) raises OverflowError.
AsFloat(v) ==
    IF v.k = "float" THEN Ok(v)
    ELSE IF v.hi # 0 THEN Raise("int too large to convert to float")
    ELSE Ok(Dyadic(v.lo, 0))

Signed(f) == IF f.neg THEN -f.q ELSE f.q

\* The numerator of a + b over 2^(a.e + b.e), for finite floats.
Sum(a, b) == Signed(a) * 2^b.e + Signed(b) * 2^a.e

\* a + b on floats: nan spreads, inf + -inf is nan, and a sum of 0 is -0.0
\* only when both operands are -0.0
FAdd(a, b) ==
    CASE a.c = "nan" \/ b.c = "nan" -> NaN
      [] a.c = "inf" /\ b.c = "inf" -> IF a.neg = b.neg THEN a ELSE NaN
      [] a.c = "inf" -> a
      [] b.c = "inf" -> b
      [] OTHER ->
           IF Sum(a, b) = 0
           THEN (IF a.neg /\ b.neg THEN NegZero ELSE Dyadic(0, 0))
           ELSE Dyadic(Sum(a, b), a.e + b.e)

FNeg(a) == [a EXCEPT !.neg = ~a.neg]

\* a * b on floats: nan spreads, inf * 0 is nan, the sign is the product of
\* the signs (also of a zero)
FMul(a, b) ==
    CASE a.c = "nan" \/ b.c = "nan" -> NaN
      [] a.c = "inf" /\ b.c = "fin" /\ b.q = 0 -> NaN
      [] b.c = "inf" /\ a.c = "fin" /\ a.q = 0 -> NaN
      [] a.c = "inf" \/ b.c = "inf" ->
           [k |-> "float", c |-> "inf", neg |-> a.neg # b.neg, q |-> 0, e |-> 0]
      [] OTHER ->
           IF a.q * b.q = 0
           THEN (IF a.neg # b.neg THEN NegZero ELSE Dyadic(0, 0))
           ELSE Dyadic(Signed(a) * Signed(b), a.e + b.e)

\* The arithmetic of two numbers one of which is a float: both are
\* converted, the left one first.
AddConverted(a, b) ==
    IF ~a.ok THEN a ELSE IF ~b.ok THEN b ELSE Ok(FAdd(a.val, b.val))

SubConverted(a, b) ==
    IF ~a.ok THEN a ELSE IF ~b.ok THEN b ELSE Ok(FAdd(a.val, FNeg(b.val)))

MulConverted(a, b) ==
    IF ~a.ok THEN a ELSE IF ~b.ok THEN b ELSE Ok(FMul(a.val, b.val))

\* v + n for a number n (the argument dx or dy)
PyAdd(v, n) ==
    CASE IsInt(v) /\ IsInt(n) ->
           Ok(JNum(ToNum(v).hi + ToNum(n).hi, ToNum(v).lo + ToNum(n).lo))
      [] IsNumber(v) -> AddConverted(AsFloat(ToNum(v)), AsFloat(ToNum(n)))
      [] v.k \in {"str", "list"} ->
           Raise("can only concatenate " \o PyTypeName(v) \o " (not \""
                 \o PyTypeName(n) \o "\") to " \o PyTypeName(v))
      [] OTHER ->
           Raise("unsupported operand type(s) for +: '" \o PyTypeName(v)
                 \o "' and '" \o PyTypeName(n) \o "'")

\* v * n for a number n (the argument sx or sy) below the range where hi
\* counts: a str or a list is repeated by an int and refuses a float
PyMul(v, n) ==
    CASE IsInt(v) /\ IsInt(n) ->
           Ok(JNum(ToNum(v).hi * ToNum(n).lo, ToNum(v).lo * ToNum(n).lo))
      [] IsNumber(v) -> MulConverted(AsFloat(ToNum(v)), AsFloat(ToNum(n)))
      [] v.k \in {"str", "list"} /\ ~IsInt(n) ->
           Raise("can't multiply sequence by non-int of type '"
                 \o PyTypeName(n) \o "'")
      [] v.k = "str" -> Ok(JStr(RepStr(v.s, ToNum(n).lo)))
      [] v.k = "list" -> Ok(JList(RepSeq(v.items, ToNum(n).lo)))
      [] OTHER ->
           Raise("unsupported operand type(s) for *: '" \o PyTypeName(v)
                 \o "' and '" \o PyTypeName(n) \o "'")

\* Where a number stands in the order of the numbers: the infinities at the
\* ends, an int of hi units of 10^4299 beyond every finite float of the model.
OrderKey(v) ==
    IF v.k = "float"
    THEN [t |-> IF v.c = "inf" THEN (IF v.neg THEN -1 ELSE 1) ELSE 0,
          hi |-> 0, q |-> Signed(v), e |-> v.e]
    ELSE [t |-> 0, hi |-> v.hi, q |-> v.lo, e |-> 0]

IsNaN(v) == v.k = "float" /\ v.c = "nan"

KeyLess(ka, kb) ==
    \/ ka.t < kb.t
    \/ ka.t = kb.t /\ ka.hi < kb.hi
    \/ ka.t = kb.t /\ ka.hi = kb.hi /\ ka.q * 2^kb.e < kb.q * 2^ka.e

\* a < b on ints and floats: nothing is below or above nan
NumLess(a, b) ==
    /\ ~IsNaN(a)
    /\ ~IsNaN(b)
    /\ KeyLess(OrderKey(a), OrderKey(b))

\* min(a, b): b when b < a, else a
PyMin(a, b) ==
    IF IsNumber(a) /\ IsNumber(b)
    THEN Ok(IF NumLess(ToNum(b), ToNum(a)) THEN b ELSE a)
    ELSE Raise("'<' not supported between instances of '" \o PyTypeName(b)
               \o "' and '" \o PyTypeName(a) \o "'")

\* max(a, b): b when b > a, else a
PyMax(a, b) ==
    IF IsNumber(a) /\ IsNumber(b)
    THEN Ok(IF NumLess(ToNum(a), ToNum(b)) THEN b ELSE a)
    ELSE Raise("'>' not supported between instances of '" \o PyTypeName(b)
               \o "' and '" \o PyTypeName(a) \o "'")

\* a - b on numbers
PySub(a, b) ==
    IF IsInt(a) /\ IsInt(b)
    THEN Ok(JNum(ToNum(a).hi - ToNum(b).hi, ToNum(a).lo - ToNum(b).lo))
    ELSE SubConverted(AsFloat(ToNum(a)), AsFloat(ToNum(b)))

\* ------------------------------------------------ Point, Contour, Path
Point(x, y, type, smooth) == [x |-> x, y |-> y, type |-> type, smooth |-> smooth]

Contour(points, is_closed) == [points |-> points, is_closed |-> is_closed]

Path(contours) == [contours |-> contours]

\* Point(x=..., y=..., type=..., smooth=...) of two computed coordinates,
\* Contour(new_points, ...) and Path(new_contours): what raised while the
\* arguments were computed leaves the method.
NewPoint(nx, ny, type, smooth) ==
    IF ~nx.ok THEN nx
    ELSE IF ~ny.ok THEN ny
    ELSE Ok(Point(nx.val, ny.val, type, smooth))

NewContour(ps, is_closed) == IF ~ps.ok THEN ps ELSE Ok(Contour(ps.val, is_closed))

NewPath(cs) == IF ~cs.ok THEN cs ELSE Ok(Path(cs.val))

\* The dict of the attributes of an object that keys names, in that order.
Attributes(obj, keys) ==
    JObj(keys, [key \in {keys[i] : i \in DOMAIN keys} |-> obj[key]])

\* Mutant: `if self.type:` in place of `if self.type != "line":`.
Point_to_dict_truthy_type(self) ==
    LET set(key) ==
            \/ key \in {"x", "y"}
            \/ key = "type" /\ Truthy(self.type)
            \/ key = "smooth" /\ Truthy(self.smooth)
    IN  Attributes(self, SelectSeq(<<"x", "y", "type", "smooth">>, set))

\* result = {"x", "y"}, then "type" and "smooth" when their conditions hold
Point_to_dict(self) ==
    LET set(key) ==
            \/ key \in {"x", "y"}
            \/ key = "type" /\ self.type # JStr("line")
            \/ key = "smooth" /\ Truthy(self.smooth)
    IN  Attributes(self, SelectSeq(<<"x", "y", "type", "smooth">>, set))

Point_from_dict(data) ==
    IF data.k # "obj" THEN NoGet(data)
    ELSE Ok(Point(Get(data, "x", JInt(0)), Get(data, "y", JInt(0)),
                  Get(data, "type", JStr("line")),
                  Get(data, "smooth", JBool(FALSE))))

\* Mutant: the flag is written under "closed", a key from_dict does not read.
Contour_to_dict_other_key(self) ==
    JObj(<<"points", "closed">>,
         [points |-> JList([i \in DOMAIN self.points |->
                               Point_to_dict(self.points[i])]),
          closed |-> self.is_closed])

Contour_to_dict(self) ==
    JObj(<<"points", "isClosed">>,
         [points |-> JList([i \in DOMAIN self.points |->
                               Point_to_dict(self.points[i])]),
          isClosed |-> self.is_closed])

\* [Point.from_dict(p) for p in ...] over what iter() gave
PointsFrom(it) ==
    IF ~it.ok THEN it
    ELSE Collect([i \in DOMAIN it.val |-> Point_from_dict(it.val[i])])

Contour_from_dict(data) ==
    IF data.k # "obj" THEN NoGet(data)
    ELSE NewContour(PointsFrom(PyIter(Get(data, "points", JList(<<>>)))),
                    Get(data, "isClosed", JBool(FALSE)))

Path_to_dict(self) ==
    JObj(<<"contours">>,
         [contours |-> JList([i \in DOMAIN self.contours |->
                                 Contour_to_dict(self.contours[i])])])

\* [Contour.from_dict(c) for c in ...] over what iter() gave
ContoursFrom(it) ==
    IF ~it.ok THEN it
    ELSE Collect([i \in DOMAIN it.val |-> Contour_from_dict(it.val[i])])

Path_from_dict(data) ==
    IF data.k # "obj" THEN NoGet(data)
    ELSE NewPath(ContoursFrom(PyIter(Get(data, "contours", JList(<<>>)))))

is_empty(self) ==
    \/ self.contours = <<>>
    \/ \A i \in DOMAIN self.contours : self.contours[i].points = <<>>

\* The points in the order the nested loops visit them.
RECURSIVE AllPoints(_, _)
AllPoints(contours, i) ==
    IF i > Len(contours) THEN <<>>
    ELSE contours[i].points \o AllPoints(contours, i + 1)

\* One pass of the loop body of get_bounds per point, in statement order.
RECURSIVE BoundsLoop(_, _, _), BoundsStep(_, _, _, _, _, _)
BoundsLoop(pts, i, acc) ==
    IF i > Len(pts) THEN Ok(acc)
    ELSE BoundsStep(pts, i, PyMin(acc.min_x, pts[i].x), PyMax(acc.max_x, pts[i].x),
                    PyMin(acc.min_y, pts[i].y), PyMax(acc.max_y, pts[i].y))

BoundsStep(pts, i, mnx, mxx, mny, mxy) ==
    IF ~mnx.ok THEN mnx
    ELSE IF ~mxx.ok THEN mxx
    ELSE IF ~mny.ok THEN mny
    ELSE IF ~mxy.ok THEN mxy
    ELSE BoundsLoop(pts, i + 1,
                    [min_x |-> mnx.val, max_x |-> mxx.val,
                     min_y |-> mny.val, max_y |-> mxy.val])

\* The dict get_bounds returns, once the width w and the height h are
\* computed, in this order.
Bounds(acc, w, h) ==
    IF ~w.ok THEN w
    ELSE IF ~h.ok THEN h
    ELSE Ok(JObj(<<"xMin", "yMin", "xMax", "yMax", "width", "height">>,
                 [xMin |-> acc.min_x, yMin |-> acc.min_y,
                  xMax |-> acc.max_x, yMax |-> acc.max_y,
                  width |-> w.val, height |-> h.val]))

BoundsOf(r) ==
    IF ~r.ok THEN r
    ELSE Bounds(r.val, PySub(r.val.max_x, r.val.min_x),
                PySub(r.val.max_y, r.val.min_y))

get_bounds(self) ==
    IF is_empty(self) THEN Ok(JNull)
    ELSE BoundsOf(BoundsLoop(AllPoints(self.contours, 1), 1,
                             [min_x |-> Inf(1), max_x |-> Inf(-1),
                              min_y |-> Inf(1), max_y |-> Inf(-1)]))

\* Mutant: the new point is built without smooth=point.smooth.
Path_translate_drops_smooth(self, dx, dy) ==
    LET new_point(p) == NewPoint(PyAdd(p.x, dx), PyAdd(p.y, dy), p.type, JBool(FALSE))
        new_contour(c) ==
            NewContour(Collect([j \in DOMAIN c.points |-> new_point(c.points[j])]),
                       c.is_closed)
    IN  NewPath(Collect([i \in DOMAIN self.contours |->
                            new_contour(self.contours[i])]))

\* Mutant: the body of scale pasted into translate, `*` left in place of `+`.
Path_translate_multiplies(self, dx, dy) ==
    LET new_point(p) == NewPoint(PyMul(p.x, dx), PyMul(p.y, dy), p.type, p.smooth)
        new_contour(c) ==
            NewContour(Collect([j \in DOMAIN c.points |-> new_point(c.points[j])]),
                       c.is_closed)
    IN  NewPath(Collect([i \in DOMAIN self.contours |->
                            new_contour(self.contours[i])]))

Path_translate(self, dx, dy) ==
    LET new_point(p) == NewPoint(PyAdd(p.x, dx), PyAdd(p.y, dy), p.type, p.smooth)
        new_contour(c) ==
            NewContour(Collect([j \in DOMAIN c.points |-> new_point(c.points[j])]),
                       c.is_closed)
    IN  NewPath(Collect([i \in DOMAIN self.contours |->
                            new_contour(self.contours[i])]))

Path_scale(self, sx, sy) ==
    LET new_point(p) == NewPoint(PyMul(p.x, sx), PyMul(p.y, sy), p.type, p.smooth)
        new_contour(c) ==
            NewContour(Collect([j \in DOMAIN c.points |-> new_point(c.points[j])]),
                       c.is_closed)
    IN  NewPath(Collect([i \in DOMAIN self.contours |->
                            new_contour(self.contours[i])]))

\* The receiver after translate / scale returned or raised: both assign to
\* no attribute of self, of its contours or of its points.
Path_translate_self(self, dx, dy) == self

Path_scale_self(self, sx, sy) == self

\* ------------------------------------------------------- json module
\* The input of an entry point is a Python str: a text that is no JSON, or
\* the JSON text of a value.
Garbage(text) == [k |-> "garbage", s |-> text]
JsonText(v) == [k |-> "json", v |-> v]

\* CPython converts no int of more than 4300 digits to or from a str:
\* 10^4300 is LimitHi units of 10^4299.
LimitHi == 10

TooManyDigits(n) ==
    \/ n.hi > LimitHi
    \/ n.hi = LimitHi /\ n.lo >= 0
    \/ n.hi < -LimitHi
    \/ n.hi = -LimitHi /\ n.lo <= 0

RECURSIVE HasLongInt(_)
HasLongInt(v) ==
    CASE v.k = "num" -> TooManyDigits(v)
      [] v.k = "list" -> \E i \in DOMAIN v.items : HasLongInt(v.items[i])
      [] v.k = "obj" -> \E key \in DOMAIN v.m : HasLongInt(v.m[key])
      [] OTHER -> FALSE

DigitLimitMessage == "Exceeds the limit (4300 digits) for integer string conversion"
DigitLimitHint == "; use sys.set_int_max_str_digits() to increase the limit"

\* What the decoder misses in a text that is no JSON, and at which character.
DecodeFault(s) ==
    CASE s \in {"not json", "", "nul"} -> [msg |-> "Expecting value", pos |-> 0]
      [] s = "{" ->
           [msg |-> "Expecting property name enclosed in double quotes", pos |-> 1]
      [] s = "[1,]" -> [msg |-> "Expecting value", pos |-> 3]
      [] s = "{} x" -> [msg |-> "Extra data", pos |-> 3]
      [] s = "{\"contours\": [" -> [msg |-> "Expecting value", pos |-> 14]

\* str(JSONDecodeError) for a fault in the first line of the text
JSONDecodeError(f) ==
    f.msg \o ": line 1 column " \o ToString(f.pos + 1)
          \o " (char " \o ToString(f.pos) \o ")"

\* The int literals of the model that are too long have 4301 digits.
json_loads(text) ==
    IF text.k = "garbage" THEN Raise(JSONDecodeError(DecodeFault(text.s)))
    ELSE IF HasLongInt(text.v)
         THEN Raise(DigitLimitMessage \o ": value has 4301 digits" \o DigitLimitHint)
    ELSE Ok(text.v)

json_dumps(obj) ==
    IF HasLongInt(obj) THEN Raise(DigitLimitMessage \o DigitLimitHint)
    ELSE Ok(JsonText(obj))

\* if isinstance(path_data, str): path_data = json.loads(path_data)
Parse(path_data) ==
    IF path_data.k \in {"garbage", "json"} THEN json_loads(path_data)
    ELSE Ok(path_data)

\* ----------------------------------------- SimpleFontraWASMProcessor
\* A method yields its return value and its locals as they stand when it
\* returns: path and result_path, or path_a and path_b in the methods that
\* take two outlines.
Returned(ret, p, rp) ==
    [ret |-> ret, path |-> p, result_path |-> rp,
     path_a |-> Unbound, path_b |-> Unbound]

Failure(e) == JObj(<<"success", "error">>, [success |-> JBool(FALSE), error |-> JStr(e)])

get_info(self) ==
    JObj(<<"version", "available", "mode", "capabilities">>,
         [version |-> JStr(self.version),
          available |-> JBool(TRUE),
          mode |-> JStr("simple"),
          capabilities |-> JList(<<JStr("path_bounds"), JStr("path_translate"),
                                   JStr("path_scale"), JStr("path_validate"),
                                   JStr("path_info")>>)])

path_bounds(self, path_data) ==
    LET d == Parse(path_data)
        p == IF d.ok THEN Path_from_dict(d.val) ELSE d
        b == IF p.ok THEN get_bounds(p.val) ELSE p
    IN  Returned(IF b.ok
                 THEN JObj(<<"success", "bounds">>,
                           [success |-> JBool(TRUE), bounds |-> b.val])
                 ELSE Failure(b.err),
                 IF p.ok THEN p.val ELSE Unbound, Unbound)

\* Mutant: the handler of a failed translation hands back the path it had.
path_translate_partial(self, path_data, dx, dy) ==
    LET d == Parse(path_data)
        p == IF d.ok THEN Path_from_dict(d.val) ELSE d
        r == IF p.ok THEN Path_translate(p.val, dx, dy) ELSE p
    IN  Returned(IF r.ok
                 THEN JObj(<<"success", "path">>,
                           [success |-> JBool(TRUE), path |-> Path_to_dict(r.val)])
                 ELSE IF p.ok
                 THEN JObj(<<"success", "error", "path">>,
                           [success |-> JBool(FALSE), error |-> JStr(r.err),
                            path |-> Path_to_dict(p.val)])
                 ELSE Failure(r.err),
                 IF p.ok THEN Path_translate_self(p.val, dx, dy) ELSE Unbound,
                 IF r.ok THEN r.val ELSE Unbound)

path_translate(self, path_data, dx, dy) ==
    LET d == Parse(path_data)
        p == IF d.ok THEN Path_from_dict(d.val) ELSE d
        r == IF p.ok THEN Path_translate(p.val, dx, dy) ELSE p
    IN  Returned(IF r.ok
                 THEN JObj(<<"success", "path">>,
                           [success |-> JBool(TRUE), path |-> Path_to_dict(r.val)])
                 ELSE Failure(r.err),
                 IF p.ok THEN Path_translate_self(p.val, dx, dy) ELSE Unbound,
                 IF r.ok THEN r.val ELSE Unbound)

path_scale(self, path_data, sx, sy) ==
    LET d == Parse(path_data)
        p == IF d.ok THEN Path_from_dict(d.val) ELSE d
        r == IF p.ok THEN Path_scale(p.val, sx, sy) ELSE p
    IN  Returned(IF r.ok
                 THEN JObj(<<"success", "path">>,
                           [success |-> JBool(TRUE), path |-> Path_to_dict(r.val)])
                 ELSE Failure(r.err),
                 IF p.ok THEN Path_scale_self(p.val, sx, sy) ELSE Unbound,
                 IF r.ok THEN r.val ELSE Unbound)

RECURSIVE SumPoints(_, _)
SumPoints(contours, i) ==
    IF i > Len(contours) THEN 0
    ELSE Len(contours[i].points) + SumPoints(contours, i + 1)

RECURSIVE CountClosed(_, _)
CountClosed(contours, i) ==
    IF i > Len(contours) THEN 0
    ELSE (IF Truthy(contours[i].is_closed) THEN 1 ELSE 0)
         + CountClosed(contours, i + 1)

\* Mutant: closed_contours counts every contour (the `if c.is_closed` lost).
Validation_counts_all(p) ==
    LET total_points == SumPoints(p.contours, 1)
        closed_contours == Len(p.contours)
        open_contours == Len(p.contours) - closed_contours
    IN  JObj(<<"success", "valid", "stats">>,
             [success |-> JBool(TRUE),
              valid |-> JBool(TRUE),
              stats |-> JObj(<<"total_contours", "closed_contours",
                               "open_contours", "total_points", "is_empty">>,
                             [total_contours |-> JInt(Len(p.contours)),
                              closed_contours |-> JInt(closed_contours),
                              open_contours |-> JInt(open_contours),
                              total_points |-> JInt(total_points),
                              is_empty |-> JBool(is_empty(p))])])

\* "Analyze path" and the return of path_validate, for the path p it decoded.
Validation(p) ==
    LET total_points == SumPoints(p.contours, 1)
        closed_contours == CountClosed(p.contours, 1)
        open_contours == Len(p.contours) - closed_contours
    IN  JObj(<<"success", "valid", "stats">>,
             [success |-> JBool(TRUE),
              valid |-> JBool(TRUE),
              stats |-> JObj(<<"total_contours", "closed_contours",
                               "open_contours", "total_points", "is_empty">>,
                             [total_contours |-> JInt(Len(p.contours)),
                              closed_contours |-> JInt(closed_contours),
                              open_contours |-> JInt(open_contours),
                              total_points |-> JInt(total_points),
                              is_empty |-> JBool(is_empty(p))])])

path_validate(self, path_data) ==
    LET d == Parse(path_data)
        p == IF d.ok THEN Path_from_dict(d.val) ELSE d
    IN  Returned(IF p.ok THEN Validation(p.val) ELSE Failure(p.err),
                 IF p.ok THEN p.val ELSE Unbound, Unbound)

\* Mutant: the stats are looked up under a key path_validate does not return.
path_info_other_key(self, path_data) ==
    LET d == Parse(path_data)
        p == IF d.ok THEN Path_from_dict(d.val) ELSE d
        validation == path_validate(self, d.val).ret
        b == IF p.ok THEN get_bounds(p.val) ELSE p
    IN  Returned(IF b.ok
                 THEN JObj(<<"success", "info">>,
                           [success |-> JBool(TRUE),
                            info |-> JObj(<<"bounds", "stats", "version">>,
                                          [bounds |-> b.val,
                                           stats |-> Get(validation, "statistics",
                                                         JObj(<<>>, <<>>)),
                                           version |-> JStr(self.version)])])
                 ELSE Failure(b.err),
                 IF p.ok THEN p.val ELSE Unbound, Unbound)

path_info(self, path_data) ==
    LET d == Parse(path_data)
        p == IF d.ok THEN Path_from_dict(d.val) ELSE d
        validation == path_validate(self, d.val).ret
        b == IF p.ok THEN get_bounds(p.val) ELSE p
    IN  Returned(IF b.ok
                 THEN JObj(<<"success", "info">>,
                           [success |-> JBool(TRUE),
                            info |-> JObj(<<"bounds", "stats", "version">>,
                                          [bounds |-> b.val,
                                           stats |-> Get(validation, "stats",
                                                         JObj(<<>>, <<>>)),
                                           version |-> JStr(self.version)])])
                 ELSE Failure(b.err),
                 IF p.ok THEN p.val ELSE Unbound, Unbound)

\* ------------------------------ module level: processor and wasm_* functions
\* An entry point yields what the processor returned, the method's locals,
\* and what json.dumps made of the result: Ok(text), or the exception that
\* leaves the entry point.
Entered(r) ==
    [result |-> r.ret, path |-> r.path, result_path |-> r.result_path,
     path_a |-> r.path_a, path_b |-> r.path_b, output |-> json_dumps(r.ret)]

wasm_get_info(self) ==
    Entered(Returned(get_info(self), Unbound, Unbound))

wasm_path_bounds(self, path_json) ==
    Entered(path_bounds(self, path_json))

wasm_path_translate(self, path_json, dx, dy) ==
    Entered(path_translate(self, path_json, dx, dy))

wasm_path_scale(self, path_json, sx, sy) ==
    Entered(path_scale(self, path_json, sx, sy))

wasm_path_validate(self, path_json) ==
    Entered(path_validate(self, path_json))

wasm_path_info(self, path_json) ==
    Entered(path_info(self, path_json))

\* --------------------------- FontraWASMProcessor (the delegating module)
\* The font-path and path-operations libraries are not part of the module.
\* What each of their calls does is theirs to decide: structure, called
\* once per operand, raises or returns a path each time; the path operation
\* raises, returns its first operand, or returns a path of its own that has
\* or lacks the attributes the manual conversion reads; and unstructure
\* raises or returns a mapping.
LibOutcomes(operands) ==
    [structure : [1..operands -> {"raise", "path"}],
     operation : {"raise", "same", "path", "bare"},
     unstructure : {"raise", "dict"}]

\* A path object made by a library; it holds no contours.
LibObject(attrs) == [k |-> "libobject", attrs |-> attrs]

IsLibObject(p) == "k" \in DOMAIN p

\* unionPath(path), subtractPath(path_a, path_b), skiaPathOperations(...):
\* a call that raises does so as the call of an unbound name does.
LibCall(name, lib, p) ==
    CASE lib.operation = "raise" -> Raise("name '" \o name \o "' is not defined")
      [] lib.operation = "same" -> Ok(p)
      [] lib.operation = "path" -> Ok(LibObject(TRUE))
      [] lib.operation = "bare" -> Ok(LibObject(FALSE))

CoreError(e) == JObj(<<"error">>, [error |-> JStr(e)])

Core_get_info(self) ==
    JObj(<<"version", "available", "capabilities">>,
         [version |-> JStr(self.version),
          available |-> JBool(self.available),
          capabilities |->
              JList(IF self.available
                    THEN <<JStr("path_union"), JStr("path_subtract"),
                           JStr("path_intersect"), JStr("path_exclude"),
                           JStr("path_simplify")>>
                    ELSE <<>>)])

\* The manual conversion of _dict_to_path: Point(...), Contour(...) and
\* Path(...) of what the mapping holds under each key.
ManualPoint(pd) ==
    IF pd.k # "obj" THEN NoGet(pd)
    ELSE Ok([x |-> Get(pd, "x", JInt(0)), y |-> Get(pd, "y", JInt(0)),
             type |-> Get(pd, "type", JNull),
             smooth |-> Get(pd, "smooth", JBool(FALSE))])

ManualPoints(it) ==
    IF ~it.ok THEN it ELSE Collect([j \in DOMAIN it.val |-> ManualPoint(it.val[j])])

ManualContourOf(ps, isClosed) ==
    IF ~ps.ok THEN ps ELSE Ok([points |-> ps.val, isClosed |-> isClosed])

ManualContour(cd) ==
    IF cd.k # "obj" THEN NoGet(cd)
    ELSE ManualContourOf(ManualPoints(PyIter(Get(cd, "points", JList(<<>>)))),
                         Get(cd, "isClosed", JBool(FALSE)))

ManualContours(it) ==
    IF ~it.ok THEN it ELSE Collect([i \in DOMAIN it.val |-> ManualContour(it.val[i])])

\* structure(path_data, Path), or the manual conversion when it raises;
\* structured is what this call of structure does.
Core_dict_to_path(self, path_data, structured) ==
    IF ~self.available THEN Ok([contours |-> <<>>])
    ELSE IF structured = "path" THEN Ok(LibObject(TRUE))
    ELSE IF path_data.k # "obj" THEN NoGet(path_data)
    ELSE NewPath(ManualContours(PyIter(Get(path_data, "contours", JList(<<>>)))))

\* The manual conversion of _path_to_dict.
ManualPointDict(pt) ==
    LET set(key) ==
            \/ key \in {"x", "y"}
            \/ key = "type" /\ Truthy(pt.type)
            \/ key = "smooth" /\ Truthy(pt.smooth)
    IN  Attributes(pt, SelectSeq(<<"x", "y", "type", "smooth">>, set))

ManualContourDict(c) ==
    JObj(<<"points", "isClosed">>,
         [points |-> JList([j \in DOMAIN c.points |-> ManualPointDict(c.points[j])]),
          isClosed |-> c.isClosed])

ManualDict(contours) ==
    JObj(<<"contours">>,
         [contours |-> JList([i \in DOMAIN contours |-> ManualContourDict(contours[i])])])

\* unstructure(path), or the manual conversion when it raises; the manual
\* conversion raises in its turn on an object without the attribute contours.
Core_path_to_dict(self, p, lib) ==
    IF ~self.available
    THEN Ok(JObj(<<"contours">>, [contours |-> JList(<<>>)]))
    ELSE IF lib.unstructure = "raise" /\ IsLibObject(p) /\ ~p.attrs
    THEN Raise("'PackedPath' object has no attribute 'contours'")
    ELSE Ok(ManualDict(IF IsLibObject(p) THEN <<>> ELSE p.contours))

\* What a method of the delegating module returns, and its locals.
CoreReturned(ret, p, pa, pb, rp) ==
    [ret |-> ret, path |-> p, result_path |-> rp, path_a |-> pa, path_b |-> pb]

Bound(r) == IF r.ok THEN r.val ELSE Unbound

Unavailable ==
    CoreReturned(CoreError("Fontra modules not available"),
                 Unbound, Unbound, Unbound, Unbound)

\* The return of a method: the mapping o of the result, or the error of what
\* raised on the way to it.
CoreAnswer(o) == IF o.ok THEN o.val ELSE CoreError(o.err)

\* A method from the call of the library on: r is what the call gave, and
\* p, pa, pb are the locals the conversions bound.
CoreResult(self, p, pa, pb, r, lib) ==
    CoreReturned(CoreAnswer(IF r.ok THEN Core_path_to_dict(self, r.val, lib) ELSE r),
                 p, pa, pb, Bound(r))

\* path_union from the conversion on: p is what _dict_to_path gave.
UnionOf(self, p, lib) ==
    CoreResult(self, Bound(p), Unbound, Unbound,
               IF p.ok THEN LibCall("unionPath", lib, p.val) ELSE p, lib)

\* path_union from the parsing on: d is what json.loads gave.
UnionParsed(self, d, lib) ==
    UnionOf(self,
            IF d.ok THEN Core_dict_to_path(self, d.val, lib.structure[1]) ELSE d,
            lib)

path_union(self, path_data, lib) ==
    IF ~self.available THEN Unavailable
    ELSE UnionParsed(self, Parse(path_data), lib)

\* The body the three two-operand operations share, step by step as for
\* path_union; name is the library function each of them calls.
BinaryOf(self, pa, pb, name, lib) ==
    CoreResult(self, Unbound, Bound(pa), Bound(pb),
               IF pb.ok THEN LibCall(name, lib, pa.val) ELSE pb, lib)

BinaryConverted(self, db, pa, name, lib) ==
    BinaryOf(self, pa,
             IF pa.ok THEN Core_dict_to_path(self, db.val, lib.structure[2]) ELSE pa,
             name, lib)

BinaryParsed(self, da, db, name, lib) ==
    BinaryConverted(self, db,
                    IF db.ok THEN Core_dict_to_path(self, da.val, lib.structure[1])
                    ELSE db,
                    name, lib)

BinaryFirst(self, da, path_b_data, name, lib) ==
    BinaryParsed(self, da, IF da.ok THEN Parse(path_b_data) ELSE da, name, lib)

PathBinary(self, path_a_data, path_b_data, name, lib) ==
    IF ~self.available THEN Unavailable
    ELSE BinaryFirst(self, Parse(path_a_data), path_b_data, name, lib)

path_subtract(self, path_a_data, path_b_data, lib) ==
    PathBinary(self, path_a_data, path_b_data, "subtractPath", lib)

path_intersect(self, path_a_data, path_b_data, lib) ==
    PathBinary(self, path_a_data, path_b_data, "skiaPathOperations", lib)

path_exclude(self, path_a_data, path_b_data, lib) ==
    PathBinary(self, path_a_data, path_b_data, "skiaPathOperations", lib)

Core_wasm_get_info(self) ==
    Entered(Returned(Core_get_info(self), Unbound, Unbound))

wasm_path_union(self, path_json, lib) ==
    Entered(path_union(self, path_json, lib))

wasm_path_subtract(self, path_a_json, path_b_json, lib) ==
    Entered(path_subtract(self, path_a_json, path_b_json, lib))

wasm_path_intersect(self, path_a_json, path_b_json, lib) ==
    Entered(path_intersect(self, path_a_json, path_b_json, lib))

wasm_path_exclude(self, path_a_json, path_b_json, lib) ==
    Entered(path_exclude(self, path_a_json, path_b_json, lib))

\* -------------------------------------------------------------- inputs
Deltas == {JInt(-MaxDelta), JInt(0), JInt(MaxDelta + 1)}

SeqsUpTo(S, n) == UNION {[1..m -> S] : m \in 0..n}

RECURSIVE SumSeq(_)
SumSeq(s) == IF s = <<>> THEN 0 ELSE Head(s) + SumSeq(Tail(s))

\* Point counts per contour: at most MaxContours contours holding at most
\* MaxPoints points between them.
Shapes == {s \in SeqsUpTo(0..MaxPoints, MaxContours) : SumSeq(s) <= MaxPoints}

RECURSIVE Product(_)
Product(sets) ==
    IF sets = <<>> THEN {<<>>}
    ELSE {<<h>> \o t : h \in Head(sets), t \in Product(Tail(sets))}

MkContour(ps, flag) ==
    IF flag = "absent" THEN JObj(<<"points">>, [points |-> JList(ps)])
    ELSE JObj(<<"points", "isClosed">>,
              [points |-> JList(ps), isClosed |-> JBool(flag = "true")])

ContoursOf(n, Pts, Flags) == {MkContour(ps, f) : ps \in [1..n -> Pts], f \in Flags}

MkOutline(cs) == JObj(<<"contours">>, [contours |-> JList(cs)])

OutlinesOver(Pts, Flags) ==
    UNION {{MkOutline(cs) : cs \in Product([i \in DOMAIN s |-> ContoursOf(s[i], Pts, Flags)])}
           : s \in Shapes}

\* Outlines whose coordinates vary.
GeomPoints ==
    {JObj(<<"x", "y">>, [x |-> JInt(a), y |-> JInt(b)]) :
        a \in (-1) .. MaxCoord, b \in {0, MaxCoord}}
GeomOutlines == OutlinesOver(GeomPoints, {"absent"})

\* Outlines whose keys vary: absent, spelled-out defaults, non-defaults.
CodecPoints ==
    {JObj(<<>>, <<>>),
     JObj(<<"x", "y", "type", "smooth">>,
          [x |-> JInt(1), y |-> JInt(1), type |-> JStr("line"),
           smooth |-> JBool(FALSE)]),
     JObj(<<"x", "type">>, [x |-> JInt(1), type |-> JStr("curve")]),
     JObj(<<"y", "smooth">>, [y |-> JInt(1), smooth |-> JBool(TRUE)])}
CodecOutlines ==
    OutlinesOver(CodecPoints, {"absent", "true"})
        \cup {MkOutline(<<c>>) : c \in ContoursOf(0, CodecPoints, {"false"})
                                       \cup ContoursOf(1, CodecPoints, {"false"})}
        \cup {JObj(<<>>, <<>>), MkOutline(<<JObj(<<>>, <<>>)>>)}

\* Values of the wrong shape, and ints at the digit limit.
GoodPoint == JObj(<<"x", "y">>, [x |-> JInt(1), y |-> JInt(1)])
Huge == JNum(LimitHi, -1)
OddPoints ==
    {GoodPoint,
     JObj(<<"x", "y">>, [x |-> JStr("a"), y |-> JInt(0)]),
     JObj(<<"x", "y">>, [x |-> JInt(0), y |-> JNull]),
     JObj(<<"x", "y">>, [x |-> Huge, y |-> JInt(0)]),
     JObj(<<"x", "y">>, [x |-> JNum(-LimitHi, 1), y |-> JInt(0)]),
     JObj(<<"x">>, [x |-> JNum(LimitHi, 0)]),
     JNull, JInt(5), JStr("a")}
OddContours ==
    {JObj(<<"points">>, [points |-> JList(ps)]) :
        ps \in [1..1 -> OddPoints] \cup [1..2 -> OddPoints]}
        \cup {JNull, JInt(5)}
        \cup {JObj(<<"points">>, [points |-> v]) :
                 v \in {JNull, JInt(5), JStr("a"), JStr(""), JObj(<<>>, <<>>),
                        JObj(<<"b", "a">>, [b |-> JInt(1), a |-> JInt(2)])}}
OddOutlines ==
    {MkOutline(<<c>>) : c \in OddContours}
        \cup {MkOutline(<<JObj(<<"points">>, [points |-> JList(<<GoodPoint>>)]), c>>) :
                 c \in OddContours}
        \cup {JObj(<<"contours">>, [contours |-> v]) :
                 v \in {JNull, JInt(5), JStr("a"), JStr(""), JObj(<<>>, <<>>),
                        JObj(<<"b", "a">>, [b |-> JInt(1), a |-> JInt(2)])}}
OddValues == {JNull, JInt(5), JStr("a"), JBool(TRUE), JList(<<>>)}

\* Outlines with float coordinates: 0.5, -1.5, the two zeros, the
\* infinities and nan, next to ints and to an int no float can hold.
FloatCoords == {Flt(2), Flt(-6), Flt(0), NegZero, Inf(1), Inf(-1), NaN}
FloatPoints ==
    {JObj(<<"x", "y">>, [x |-> c, y |-> d]) : c \in FloatCoords, d \in {JInt(1), Flt(4)}}
        \cup {GoodPoint, JObj(<<"x", "y">>, [x |-> Huge, y |-> Flt(4)])}
FloatOutlines ==
    {MkOutline(<<MkContour(ps, "absent")>>) :
        ps \in [1..1 -> FloatPoints] \cup [1..2 -> FloatPoints]}

\* Texts that are no JSON.
GarbageTexts == {"not json", "", "nul", "{", "[1,]", "{} x", "{\"contours\": ["}

Inputs ==
    {Garbage(s) : s \in GarbageTexts}
        \cup {JsonText(v) : v \in GeomOutlines \cup CodecOutlines \cup FloatOutlines
                                    \cup OddOutlines \cup OddValues}

\* Float arguments (0.5, 0), (2.0, 1.5), (0.0, -1.0), (-0.0, inf),
\* (nan, -0.5), (0.25, 0.5) and (1.5, -0.75), and the outlines they are
\* applied to, the points (0.25, 0.75) and (3, 0.25) among them.
FloatArgs ==
    {<<Flt(2), JInt(0)>>, <<Flt(8), Flt(6)>>, <<Flt(0), Flt(-4)>>,
     <<NegZero, Inf(1)>>, <<NaN, Flt(-2)>>, <<Flt(1), Flt(2)>>, <<Flt(6), Flt(-3)>>}
FloatArgInputs ==
    {JsonText(v) : v \in FloatOutlines \cup OddOutlines}
        \cup {JsonText(MkOutline(<<MkContour(<<GoodPoint, JObj(<<>>, <<>>)>>, "true")>>)),
              JsonText(MkOutline(<<MkContour(
                  <<JObj(<<"x", "y">>, [x |-> Flt(1), y |-> Flt(3)])>>, "true")>>)),
              JsonText(MkOutline(<<MkContour(
                  <<JObj(<<"x", "y">>, [x |-> Flt(2), y |-> Flt(-6)]),
                    JObj(<<"x", "y">>, [x |-> JInt(3), y |-> Flt(1)])>>, "absent")>>))}

CoreInputs ==
    {Garbage("not json"), Garbage("{} x"), JsonText(JNull), JsonText(MkOutline(<<>>)),
     JsonText(MkOutline(<<MkContour(<<GoodPoint,
                                      JObj(<<"x", "y">>, [x |-> JInt(0), y |-> JInt(0)])>>,
                                    "true")>>)),
     JsonText(MkOutline(<<MkContour(<<JObj(<<"x", "type", "smooth">>,
                                           [x |-> JInt(1), type |-> JStr("curve"),
                                            smooth |-> JBool(TRUE)])>>,
                                    "absent")>>))}

\* ---------------------------------------------------------- the system
\* loaded is the module that was imported and available its FONTRA_AVAILABLE
\* (the delegating module found its libraries); processor holds the
\* attributes of the module-level processor, those __init__ assigned;
\* frames holds the calls in flight, one per thread of the host.
MaxThreads == 2

\* A call in flight: the statement it is at and the locals of its method.
Idle ==
    [pc |-> "idle", call |-> [op |-> "none"], path_data |-> Unbound,
     path |-> Unbound, result_path |-> Unbound, validation |-> Unbound,
     bounds |-> Unbound, result |-> Unbound]

Init ==
    /\ loaded \in {"simple", "core"}
    /\ available \in (IF loaded = "simple" THEN {TRUE} ELSE BOOLEAN)
    /\ processor = IF loaded = "simple"
                   THEN [version |-> "1.0.0-simple"]
                   ELSE [version |-> "1.0.0", available |-> available]
    /\ call = [op |-> "none"]
    /\ path = Unbound
    /\ path_a = Unbound
    /\ path_b = Unbound
    /\ result_path = Unbound
    /\ result = Unbound
    /\ output = Unbound
    /\ log = <<>>
    /\ frames = [t \in 1..MaxThreads |-> Idle]

\* How a call ended for its caller: an exception left the entry point, or
\* it returned the text of a failure, or of anything else.
Outcome(e) ==
    IF ~e.output.ok THEN "raised"
    ELSE IF "error" \in DOMAIN e.result.m THEN "failure"
    ELSE "success"

\* What the call c left behind when it ended as e: the observer's record of
\* the latest call, and one more entry of the log.
Record(c, e) ==
    /\ call' = c
    /\ path' = e.path
    /\ path_a' = e.path_a
    /\ path_b' = e.path_b
    /\ result_path' = e.result_path
    /\ result' = e.result
    /\ output' = e.output
    /\ log' = Append(log, Outcome(e))

\* A whole call of an entry point, with no other call in flight.
Effect(c, e) ==
    Record(c, e) /\ UNCHANGED <<loaded, available, processor, frames>>

\* Spec: one request against a freshly imported module, over the whole input
\* pool.
Fresh == call.op = "none"

GetInfo ==
    loaded = "simple" /\ Fresh
        /\ Effect([op |-> "get_info"], wasm_get_info(processor))

PathBounds ==
    loaded = "simple" /\ Fresh
        /\ \E t \in Inputs :
              Effect([op |-> "path_bounds", text |-> t],
                     wasm_path_bounds(processor, t))

PathTranslate ==
    loaded = "simple" /\ Fresh
        /\ \/ \E t \in Inputs, dx \in Deltas, dy \in Deltas :
                 Effect([op |-> "path_translate", text |-> t, a |-> dx, b |-> dy],
                        wasm_path_translate(processor, t, dx, dy))
           \/ \E t \in FloatArgInputs, d \in FloatArgs :
                 Effect([op |-> "path_translate", text |-> t, a |-> d[1], b |-> d[2]],
                        wasm_path_translate(processor, t, d[1], d[2]))

PathScale ==
    loaded = "simple" /\ Fresh
        /\ \/ \E t \in Inputs, sx \in Deltas, sy \in Deltas :
                 Effect([op |-> "path_scale", text |-> t, a |-> sx, b |-> sy],
                        wasm_path_scale(processor, t, sx, sy))
           \/ \E t \in FloatArgInputs, d \in FloatArgs :
                 Effect([op |-> "path_scale", text |-> t, a |-> d[1], b |-> d[2]],
                        wasm_path_scale(processor, t, d[1], d[2]))

PathValidate ==
    loaded = "simple" /\ Fresh
        /\ \E t \in Inputs :
              Effect([op |-> "path_validate", text |-> t],
                     wasm_path_validate(processor, t))

PathInfo ==
    loaded = "simple" /\ Fresh
        /\ \E t \in Inputs :
              Effect([op |-> "path_info", text |-> t],
                     wasm_path_info(processor, t))

CoreGetInfo ==
    loaded = "core" /\ Fresh
        /\ Effect([op |-> "core_get_info"], Core_wasm_get_info(processor))

PathUnion ==
    loaded = "core" /\ Fresh
        /\ \E t \in CoreInputs, lib \in LibOutcomes(1) :
              Effect([op |-> "path_union", text |-> t, lib |-> lib],
                     wasm_path_union(processor, t, lib))

PathSubtract ==
    loaded = "core" /\ Fresh
        /\ \E ta \in CoreInputs, tb \in CoreInputs, lib \in LibOutcomes(2) :
              Effect([op |-> "path_subtract", text |-> ta, text_b |-> tb, lib |-> lib],
                     wasm_path_subtract(processor, ta, tb, lib))

PathIntersect ==
    loaded = "core" /\ Fresh
        /\ \E ta \in CoreInputs, tb \in CoreInputs, lib \in LibOutcomes(2) :
              Effect([op |-> "path_intersect", text |-> ta, text_b |-> tb, lib |-> lib],
                     wasm_path_intersect(processor, ta, tb, lib))

PathExclude ==
    loaded = "core" /\ Fresh
        /\ \E ta \in CoreInputs, tb \in CoreInputs, lib \in LibOutcomes(2) :
              Effect([op |-> "path_exclude", text |-> ta, text_b |-> tb, lib |-> lib],
                     wasm_path_exclude(processor, ta, tb, lib))

Next ==
    \/ GetInfo
    \/ PathBounds
    \/ PathTranslate
    \/ PathScale
    \/ PathValidate
    \/ PathInfo
    \/ CoreGetInfo
    \/ PathUnion
    \/ PathSubtract
    \/ PathIntersect
    \/ PathExclude

Spec == Init /\ [][Next]_vars

\* ------------------------------------------- SpecSeq: calls in flight
\* Host threads call the entry points of the simple module on the one
\* module-level processor, up to MaxCalls calls in all. A thread runs its
\* call one statement at a time, and the threads take turns in any order;
\* self is the processor itself, so a statement that reads an attribute of
\* self reads it as it is when the statement runs, and an assignment to one
\* would be seen by every call in flight. A statement yields the attributes
\* of self and the frame as it leaves them.

\* return <value>: the method hands r to the entry point
Answered(f, r) == [f EXCEPT !.result = r, !.pc = "dumps"]

\* <name> = <expression x>, inside the try: the statement at pc next follows,
\* or `except Exception as e: return {"success": False, "error": str(e)}`
Assigned(f, name, x, next) ==
    IF x.ok THEN [f EXCEPT ![name] = x.val, !.pc = next]
    ELSE Answered(f, Failure(x.err))

Run_get_info(self, f) == [self |-> self, frame |-> Answered(f, get_info(self))]

Run_path_bounds(self, f) ==
    [self |-> self,
     frame |->
        CASE f.pc = "parse" ->
               Assigned(f, "path_data", Parse(f.call.text), "convert")
          [] f.pc = "convert" ->
               Assigned(f, "path", Path_from_dict(f.path_data), "operate")
          [] f.pc = "operate" ->
               Assigned(f, "bounds", get_bounds(f.path), "answer")
          [] f.pc = "answer" ->
               Answered(f, JObj(<<"success", "bounds">>,
                                [success |-> JBool(TRUE), bounds |-> f.bounds]))]

\* Mutant: the method keeps the path it works on in an attribute of the
\* processor (self.path) instead of a local.
Run_path_translate_on_self(self, f) ==
    [self |->
        IF f.pc = "convert" /\ Path_from_dict(f.path_data).ok
        THEN ("path" :> Path_from_dict(f.path_data).val) @@ self
        ELSE self,
     frame |->
        CASE f.pc = "parse" ->
               Assigned(f, "path_data", Parse(f.call.text), "convert")
          [] f.pc = "convert" ->
               Assigned(f, "path", Path_from_dict(f.path_data), "operate")
          [] f.pc = "operate" ->
               Assigned([f EXCEPT !.path =
                            Path_translate_self(self.path, f.call.a, f.call.b)],
                        "result_path",
                        Path_translate(self.path, f.call.a, f.call.b), "answer")
          [] f.pc = "answer" ->
               Answered(f, JObj(<<"success", "path">>,
                                [success |-> JBool(TRUE),
                                 path |-> Path_to_dict(f.result_path)]))]

Run_path_translate(self, f) ==
    [self |-> self,
     frame |->
        CASE f.pc = "parse" ->
               Assigned(f, "path_data", Parse(f.call.text), "convert")
          [] f.pc = "convert" ->
               Assigned(f, "path", Path_from_dict(f.path_data), "operate")
          [] f.pc = "operate" ->
               Assigned([f EXCEPT !.path =
                            Path_translate_self(f.path, f.call.a, f.call.b)],
                        "result_path",
                        Path_translate(f.path, f.call.a, f.call.b), "answer")
          [] f.pc = "answer" ->
               Answered(f, JObj(<<"success", "path">>,
                                [success |-> JBool(TRUE),
                                 path |-> Path_to_dict(f.result_path)]))]

Run_path_scale(self, f) ==
    [self |-> self,
     frame |->
        CASE f.pc = "parse" ->
               Assigned(f, "path_data", Parse(f.call.text), "convert")
          [] f.pc = "convert" ->
               Assigned(f, "path", Path_from_dict(f.path_data), "operate")
          [] f.pc = "operate" ->
               Assigned([f EXCEPT !.path =
                            Path_scale_self(f.path, f.call.a, f.call.b)],
                        "result_path",
                        Path_scale(f.path, f.call.a, f.call.b), "answer")
          [] f.pc = "answer" ->
               Answered(f, JObj(<<"success", "path">>,
                                [success |-> JBool(TRUE),
                                 path |-> Path_to_dict(f.result_path)]))]

Run_path_validate(self, f) ==
    [self |-> self,
     frame |->
        CASE f.pc = "parse" ->
               Assigned(f, "path_data", Parse(f.call.text), "convert")
          [] f.pc = "convert" ->
               Assigned(f, "path", Path_from_dict(f.path_data), "answer")
          [] f.pc = "answer" -> Answered(f, Validation(f.path))]

Run_path_info(self, f) ==
    [self |-> self,
     frame |->
        CASE f.pc = "parse" ->
               Assigned(f, "path_data", Parse(f.call.text), "convert")
          [] f.pc = "convert" ->
               Assigned(f, "path", Path_from_dict(f.path_data), "validate")
          [] f.pc = "validate" ->
               [f EXCEPT !.validation = path_validate(self, f.path_data).ret,
                         !.pc = "operate"]
          [] f.pc = "operate" ->
               Assigned(f, "bounds", get_bounds(f.path), "answer")
          [] f.pc = "answer" ->
               Answered(f, JObj(<<"success", "info">>,
                   [success |-> JBool(TRUE),
                    info |-> JObj(<<"bounds", "stats", "version">>,
                                  [bounds |-> f.bounds,
                                   stats |-> Get(f.validation, "stats",
                                                 JObj(<<>>, <<>>)),
                                   version |-> JStr(self.version)])]))]

\* The next statement of the method the frame f is in.
Statement(self, f) ==
    CASE f.call.op = "get_info" -> Run_get_info(self, f)
      [] f.call.op = "path_bounds" -> Run_path_bounds(self, f)
      [] f.call.op = "path_translate" -> Run_path_translate(self, f)
      [] f.call.op = "path_scale" -> Run_path_scale(self, f)
      [] f.call.op = "path_validate" -> Run_path_validate(self, f)
      [] f.call.op = "path_info" -> Run_path_info(self, f)

\* The calls the threads make: one that raises past its entry point (the
\* width of the outline a 4300-digit x is in has 4301 digits), two that fail
\* (at json.loads, and where a float is added to an int beyond the floats),
\* and successes.
SeqCalls ==
    LET good == JsonText(MkOutline(
                    <<MkContour(<<GoodPoint>>, "true"),
                      MkContour(<<JObj(<<"x", "type">>,
                                       [x |-> JInt(0), type |-> JStr("curve")])>>,
                                "absent")>>))
        large == JsonText(MkOutline(
                     <<MkContour(<<JObj(<<"x", "y">>,
                                        [x |-> JNum(-LimitHi, 1), y |-> JInt(0)]),
                                   GoodPoint>>, "absent")>>))
    IN  {[op |-> "get_info"],
         [op |-> "path_bounds", text |-> large],
         [op |-> "path_validate", text |-> Garbage("not json")],
         [op |-> "path_info", text |-> good],
         [op |-> "path_translate", text |-> good, a |-> Flt(2), b |-> Flt(2)],
         [op |-> "path_translate", text |-> large, a |-> Flt(2), b |-> Flt(2)],
         [op |-> "path_scale", text |-> good,
          a |-> JInt(MaxDelta + 1), b |-> JInt(-MaxDelta)]}

\* A thread calls an entry point, which calls the method of the processor:
\* the method stands before its first statement.
Invoke(t) ==
    /\ loaded = "simple"
    /\ frames[t].pc = "idle"
    /\ Len(log) + Cardinality({u \in 1..MaxThreads : frames[u].pc # "idle"})
          < MaxCalls
    /\ \E c \in SeqCalls :
          frames' = [frames EXCEPT ![t] =
                        [Idle EXCEPT !.call = c,
                                     !.pc = IF c.op = "get_info" THEN "answer"
                                            ELSE "parse"]]
    /\ UNCHANGED <<loaded, available, processor, call, path, path_a, path_b,
                   result_path, result, output, log>>

\* A thread runs the next statement of the method it is in.
Advance(t) ==
    /\ frames[t].pc \notin {"idle", "dumps"}
    /\ processor' = Statement(processor, frames[t]).self
    /\ frames' = [frames EXCEPT ![t] = Statement(processor, frames[t]).frame]
    /\ UNCHANGED <<loaded, available, call, path, path_a, path_b,
                   result_path, result, output, log>>

\* The method has returned: the entry point returns json.dumps(result), or
\* json.dumps raises and the exception leaves the entry point.
Return(t) ==
    /\ frames[t].pc = "dumps"
    /\ Record(frames[t].call,
              [result |-> frames[t].result, path |-> frames[t].path,
               result_path |-> frames[t].result_path,
               path_a |-> Unbound, path_b |-> Unbound,
               output |-> json_dumps(frames[t].result)])
    /\ frames' = [frames EXCEPT ![t] = Idle]
    /\ UNCHANGED <<loaded, available, processor>>

NextSeq ==
    \/ \E t \in 1..MaxThreads : Invoke(t)
    \/ \E t \in 1..MaxThreads : Advance(t)
    \/ \E t \in 1..MaxThreads : Return(t)

SpecSeq == Init /\ [][NextSeq]_vars

\* ============================================================== claims
SimpleOps == {"path_bounds", "path_translate", "path_scale", "path_validate", "path_info"}
CoreOps == {"path_union", "path_subtract", "path_intersect", "path_exclude"}

PayloadKeys == {"path", "bounds", "stats", "info"}

PayloadKey(op) ==
    CASE op = "path_bounds" -> "bounds"
      [] op \in {"path_translate", "path_scale"} -> "path"
      [] op = "path_validate" -> "stats"
      [] op = "path_info" -> "info"

Succeeded == result.m.success = JBool(TRUE)

\* The places <<i, j>> of the points of an outline.
Places(o) ==
    UNION {{<<i, j>> : j \in DOMAIN o.contours[i].points} : i \in DOMAIN o.contours}

At(o, pl) == o.contours[pl[1]].points[pl[2]]

\* Numbers as the claims speak of them: ints and floats.
Numeric(v) == v.k \in {"num", "float"}

AllNumeric(o) == \A pl \in Places(o) : Numeric(At(o, pl).x) /\ Numeric(At(o, pl).y)

AllInts(o) == \A pl \in Places(o) : At(o, pl).x.k = "num" /\ At(o, pl).y.k = "num"

Finite(v) == v.k = "num" \/ (v.k = "float" /\ v.c = "fin")

Infinite(v) == v.k = "float" /\ v.c = "inf"

\* A finite number is Units(v) * 10^4299 + Mant(v) / 2^Exp(v).
Units(v) == IF v.k = "float" THEN 0 ELSE v.hi
Mant(v) == IF v.k = "float" THEN (IF v.neg THEN -v.q ELSE v.q) ELSE v.lo
Exp(v) == IF v.k = "float" THEN v.e ELSE 0

NumEq(a, b) ==
    /\ ~IsNaN(a)
    /\ ~IsNaN(b)
    /\ Infinite(a) = Infinite(b)
    /\ Infinite(a) => a.neg = b.neg
    /\ Finite(a) =>
          /\ Units(a) = Units(b)
          /\ Mant(a) * 2^Exp(b) = Mant(b) * 2^Exp(a)

NumLeq(a, b) ==
    /\ ~IsNaN(a)
    /\ ~IsNaN(b)
    /\ \/ Infinite(a) /\ a.neg
       \/ Infinite(b) /\ ~b.neg
       \/ /\ Finite(a)
          /\ Finite(b)
          /\ \/ Units(a) < Units(b)
             \/ /\ Units(a) = Units(b)
                /\ Mant(a) * 2^Exp(b) <= Mant(b) * 2^Exp(a)

IsZero(v) == NumEq(v, JInt(0))

Negative(v) == ~NumLeq(JInt(0), v) /\ ~IsNaN(v)

\* r is x + d: the sum of two finite numbers, a float when one of them is;
\* nan when one is nan or the two are infinities of opposite signs; else the
\* infinity that one of them is.
IsSum(r, x, d) ==
    IF Finite(x) /\ Finite(d)
    THEN /\ Finite(r)
         /\ (r.k = "float") <=> (x.k = "float" \/ d.k = "float")
         /\ Units(r) = Units(x) + Units(d)
         /\ Mant(r) * 2^(Exp(x) + Exp(d))
               = (Mant(x) * 2^Exp(d) + Mant(d) * 2^Exp(x)) * 2^Exp(r)
    ELSE IF IsNaN(x) \/ IsNaN(d) \/ (Infinite(x) /\ Infinite(d) /\ x.neg # d.neg)
    THEN IsNaN(r)
    ELSE Infinite(r) /\ r.neg = (IF Infinite(x) THEN x.neg ELSE d.neg)

\* r is x * f: the product of two finite numbers, a float when one of them
\* is; nan when one is nan or an infinity meets a zero; else an infinity of
\* the product's sign.
IsProduct(r, x, f) ==
    IF Finite(x) /\ Finite(f)
    THEN /\ Finite(r)
         /\ (r.k = "float") <=> (x.k = "float" \/ f.k = "float")
         /\ Units(r) * 2^Exp(f) = Units(x) * Mant(f)
         /\ Mant(r) * 2^(Exp(x) + Exp(f)) = Mant(x) * Mant(f) * 2^Exp(r)
    ELSE IF IsNaN(x) \/ IsNaN(f) \/ IsZero(x) \/ IsZero(f)
    THEN IsNaN(r)
    ELSE Infinite(r) /\ r.neg = (Negative(x) # Negative(f))

\* x and d are ints, or numbers a float holds: the arithmetic of the two
\* does not leave the range of the floats.
InRange(x, d) ==
    \/ x.k = "num" /\ d.k = "num"
    \/ Numeric(x) /\ Numeric(d) /\ Units(x) = 0 /\ Units(d) = 0

\* The coordinates are numbers that go with the call's two arguments.
ArgsInRange ==
    \A pl \in Places(path) :
        InRange(At(path, pl).x, call.a) /\ InRange(At(path, pl).y, call.b)

\* Contour count and order, point count and order, isClosed, type and smooth.
SameStructure(o, n) ==
    /\ Len(n.contours) = Len(o.contours)
    /\ \A i \in DOMAIN o.contours :
          /\ n.contours[i].is_closed = o.contours[i].is_closed
          /\ Len(n.contours[i].points) = Len(o.contours[i].points)
    /\ \A pl \in Places(o) :
          /\ At(n, pl).type = At(o, pl).type
          /\ At(n, pl).smooth = At(o, pl).smooth

\* C1: every outline-taking method of the simple processor returns an
\* envelope with a boolean `success`, and either success = true with the
\* operation's payload and no `error`, or success = false with an `error`
\* string and no payload field at all.
C1_EnvelopeShape ==
    call.op \in SimpleOps =>
        /\ result.k = "obj"
        /\ "success" \in DOMAIN result.m
        /\ result.m.success.k = "bool"
        /\ \/ /\ result.m.success.b
              /\ PayloadKey(call.op) \in DOMAIN result.m
              /\ "error" \notin DOMAIN result.m
           \/ /\ ~result.m.success.b
              /\ "error" \in DOMAIN result.m
              /\ result.m.error.k = "str"
              /\ DOMAIN result.m \cap PayloadKeys = {}

\* A translate that decoded two points and failed on the second one.
C1_Witness ==
    /\ call.op = "path_translate"
    /\ path # Unbound
    /\ Len(path.contours) = 1
    /\ Len(path.contours[1].points) = 2
    /\ path.contours[1].points[1].x.k = "num"
    /\ path.contours[1].points[1].y.k = "num"
    /\ path.contours[1].points[2].x.k = "str"
    /\ result.m.success = JBool(FALSE)

\* The text was no JSON, or decoding or computing raised inside the method.
RaisedInside ==
    \/ call.text.k = "garbage"
    \/ path = Unbound
    \/ call.op \in {"path_translate", "path_scale"} /\ result_path = Unbound

FailureWithMessage ==
    /\ result.m.success = JBool(FALSE)
    /\ result.m.error.k = "str"
    /\ result.m.error.s # ""

\* C2: no exception leaves an outline-taking entry point of the simple
\* module, the final json.dumps included, and text that is no JSON or input
\* on which decoding or computing raises gives {success: false, error: <a
\* non-empty string>}.
C2_NeverRaises ==
    call.op \in SimpleOps =>
        /\ output.ok
        /\ RaisedInside => FailureWithMessage

\* The part of C2 the code keeps: whatever raises inside a method is turned
\* into a failure envelope with a non-empty message.
C2_CaughtInside ==
    (call.op \in SimpleOps /\ RaisedInside) => FailureWithMessage

\* ------------------------------------------------------------------ C3
Decoded == call.op \in SimpleOps /\ path # Unbound

ClosedCount(o) ==
    Cardinality({i \in DOMAIN o.contours : o.contours[i].is_closed = JBool(TRUE)})

NoPoints(o) == Places(o) = {}

\* What C3 says the five statistics are, under the field names `names` gives.
StatsAre(stats, names) ==
    /\ stats.k = "obj"
    /\ DOMAIN stats.m = {names[n] : n \in DOMAIN names}
    /\ stats.m[names.total] = JInt(Len(path.contours))
    /\ stats.m[names.closed] = JInt(ClosedCount(path))
    /\ stats.m[names.open] = JInt(Len(path.contours) - ClosedCount(path))
    /\ stats.m[names.points] = JInt(Cardinality(Places(path)))
    /\ stats.m[names.empty] = JBool(NoPoints(path))

ValidateSucceeds ==
    /\ result.m.success = JBool(TRUE)
    /\ "valid" \in DOMAIN result.m
    /\ result.m.valid = JBool(TRUE)
    /\ "stats" \in DOMAIN result.m

\* C3 as stated: for every decodable outline pathValidate succeeds with
\* valid = true and a stats record of exactly totalContours, closedContours,
\* openContours, totalPoints, isEmpty.
C3_AsStated ==
    (call.op = "path_validate" /\ Decoded) =>
        /\ ValidateSucceeds
        /\ StatsAre(result.m.stats,
                    [total |-> "totalContours", closed |-> "closedContours",
                     open |-> "openContours", points |-> "totalPoints",
                     empty |-> "isEmpty"])

\* C3 amended: the same record, under the names the code gives its fields:
\* total_contours, closed_contours, open_contours, total_points, is_empty.
C3_Validate ==
    (call.op = "path_validate" /\ Decoded) =>
        /\ ValidateSucceeds
        /\ StatsAre(result.m.stats,
                    [total |-> "total_contours", closed |-> "closed_contours",
                     open |-> "open_contours", points |-> "total_points",
                     empty |-> "is_empty"])

\* A closed one-point contour next to an open one-point contour.
C3_Witness ==
    /\ call.op = "path_validate"
    /\ Decoded
    /\ Len(path.contours) = 2
    /\ path.contours[1].is_closed = JBool(TRUE)
    /\ path.contours[2].is_closed = JBool(FALSE)
    /\ Len(path.contours[1].points) = 1
    /\ Len(path.contours[2].points) = 1
    /\ result.m.success = JBool(TRUE)

\* ------------------------------------------------------------------ C4
Xs(o) == {At(o, pl).x : pl \in Places(o)}
Ys(o) == {At(o, pl).y : pl \in Places(o)}

IsMin(v, S) == v \in S /\ \A w \in S : NumLeq(v, w)
IsMax(v, S) == v \in S /\ \A w \in S : NumLeq(w, v)

\* r is a - b for two finite numbers.
IsDifference(r, a, b) ==
    (Finite(a) /\ Finite(b)) =>
        /\ Finite(r)
        /\ Units(r) = Units(a) - Units(b)
        /\ Mant(r) * 2^(Exp(a) + Exp(b))
              = (Mant(a) * 2^Exp(b) - Mant(b) * 2^Exp(a)) * 2^Exp(r)

\* What C4 says of the bounds b of the decoded outline.
BoundsAsStated(b) ==
    /\ (b = JNull) <=> NoPoints(path)
    /\ ~NoPoints(path) =>
          /\ b.k = "obj"
          /\ DOMAIN b.m = {"xMin", "yMin", "xMax", "yMax", "width", "height"}
          /\ IsMin(b.m.xMin, Xs(path))
          /\ IsMin(b.m.yMin, Ys(path))
          /\ IsMax(b.m.xMax, Xs(path))
          /\ IsMax(b.m.yMax, Ys(path))
          /\ IsDifference(b.m.width, b.m.xMax, b.m.xMin)
          /\ IsDifference(b.m.height, b.m.yMax, b.m.yMin)
          /\ NumLeq(JInt(0), b.m.width)
          /\ NumLeq(JInt(0), b.m.height)
          /\ Cardinality(Places(path)) = 1 =>
                IsZero(b.m.width) /\ IsZero(b.m.height)

\* C4: bounds is null exactly when the outline has no point; otherwise
\* xMin/yMin are the minima and xMax/yMax the maxima over every point of
\* every contour, width = xMax - xMin >= 0 and height = yMax - yMin >= 0,
\* and one point alone gives width = height = 0.
C4_Bounds ==
    (call.op = "path_bounds" /\ Decoded /\ Succeeded) =>
        BoundsAsStated(result.m.bounds)

\* What the code does: where every coordinate is finite the bounds are as
\* C4 says, and the call succeeds whenever the coordinates are numbers that
\* subtract within the range of the floats.
C4_FiniteBounds ==
    (call.op = "path_bounds" /\ Decoded) =>
        /\ (AllNumeric(path)
              /\ \A v \in Xs(path), w \in Xs(path) : InRange(v, w)
              /\ \A t \in Ys(path), u \in Ys(path) : InRange(t, u)) => Succeeded
        /\ (Succeeded /\ \A v \in Xs(path) \cup Ys(path) : Finite(v)) =>
              BoundsAsStated(result.m.bounds)

\* Bounds of two points in the second of two contours, the first one empty.
C4_FiniteWitness ==
    /\ call.op = "path_bounds"
    /\ Decoded
    /\ Succeeded
    /\ Len(path.contours) = 2
    /\ path.contours[1].points = <<>>
    /\ Len(path.contours[2].points) = 2
    /\ NumLeq(JInt(1), result.m.bounds.m.width)
    /\ NumLeq(JInt(1), result.m.bounds.m.height)

\* ------------------------------------------------------------------ C5
\* The outline the call's text decodes to.
DecodedInput == Path_from_dict(call.text.v).val

\* C5: translate returns a new outline with x' = x + dx and y' = y + dy at
\* every point, the contours and points in the same number and order,
\* isClosed, segment type and smooth unchanged, and leaves its input as it
\* was; every decodable outline is translated whose coordinates are ints to
\* be moved by ints, or numbers within the range of the floats.
C5_Translate ==
    (call.op = "path_translate" /\ Decoded) =>
        /\ path = DecodedInput
        /\ ArgsInRange => Succeeded
        /\ Succeeded =>
              /\ result_path # Unbound
              /\ result.m.path = Path_to_dict(result_path)
              /\ SameStructure(path, result_path)
        /\ (Succeeded /\ AllNumeric(path)) =>
              \A pl \in Places(path) :
                  /\ IsSum(At(result_path, pl).x, At(path, pl).x, call.a)
                  /\ IsSum(At(result_path, pl).y, At(path, pl).y, call.b)

\* A closed contour with a smooth point and a curve point, moved on both axes.
C5_Witness ==
    /\ call.op = "path_translate"
    /\ Decoded
    /\ Succeeded
    /\ ~IsZero(call.a)
    /\ ~IsZero(call.b)
    /\ \E i \in DOMAIN path.contours :
          /\ path.contours[i].is_closed = JBool(TRUE)
          /\ Len(path.contours[i].points) = 2
          /\ path.contours[i].points[1].smooth = JBool(TRUE)
          /\ path.contours[i].points[2].type = JStr("curve")

\* ------------------------------------------------------------------ C6
\* What C6 says of a scale that succeeded; a factor of 0 puts at 0 every
\* coordinate, or the finite ones only.
ScaledBy(every) ==
    /\ result_path # Unbound
    /\ result.m.path = Path_to_dict(result_path)
    /\ SameStructure(path, result_path)
    /\ AllNumeric(path) =>
          \A pl \in Places(path) :
              /\ IsProduct(At(result_path, pl).x, At(path, pl).x, call.a)
              /\ IsProduct(At(result_path, pl).y, At(path, pl).y, call.b)
              /\ (IsZero(call.a) /\ (every \/ Finite(At(path, pl).x))) =>
                    IsZero(At(result_path, pl).x)
              /\ (IsZero(call.b) /\ (every \/ Finite(At(path, pl).y))) =>
                    IsZero(At(result_path, pl).y)

\* C6 as stated: scale returns a new outline with x' = x * sx and y' = y * sy
\* at every point and the structure of its input, which it leaves as it was;
\* a factor of 0 puts that coordinate of every point at 0, and a negative
\* factor is accepted like any other.
C6_AsStated ==
    (call.op = "path_scale" /\ Decoded) =>
        /\ path = DecodedInput
        /\ ArgsInRange => Succeeded
        /\ Succeeded => ScaledBy(TRUE)

\* What the code does: the same, but a factor of 0 puts at 0 the finite
\* coordinates only; an infinite or nan coordinate times 0 is nan.
C6_Scale ==
    (call.op = "path_scale" /\ Decoded) =>
        /\ path = DecodedInput
        /\ ArgsInRange => Succeeded
        /\ Succeeded => ScaledBy(FALSE)
        /\ (Succeeded /\ AllNumeric(path)) =>
              \A pl \in Places(path) :
                  (IsZero(call.a) /\ ~Finite(At(path, pl).x)) =>
                      IsNaN(At(result_path, pl).x)

\* Factors 0.0 and -1.0 on two points: x = 0.5 goes to 0 and the infinite x
\* to nan, and the y of both are mirrored.
C6_Witness ==
    /\ call.op = "path_scale"
    /\ Decoded
    /\ Succeeded
    /\ call.a = Flt(0)
    /\ call.b = Flt(-4)
    /\ Cardinality(Places(path)) = 2
    /\ At(path, <<1, 1>>).x = Flt(2)
    /\ At(path, <<1, 2>>).x = Inf(1)
    /\ At(path, <<1, 1>>).y = JInt(1)
    /\ At(result_path, <<1, 1>>).x = Flt(0)
    /\ At(result_path, <<1, 2>>).x = NaN
    /\ At(result_path, <<1, 1>>).y = Flt(-4)

\* ------------------------------------------------------------------ C7
\* The text is JSON of the outline shape: every key may be missing, and a
\* key that is there holds a value of the right kind.
WellShaped(t) ==
    /\ t.k = "json"
    /\ ~HasLongInt(t.v)
    /\ t.v.k = "obj"
    /\ "contours" \in DOMAIN t.v.m =>
          /\ t.v.m.contours.k = "list"
          /\ \A i \in DOMAIN t.v.m.contours.items :
                LET c == t.v.m.contours.items[i] IN
                /\ c.k = "obj"
                /\ "points" \in DOMAIN c.m =>
                      /\ c.m.points.k = "list"
                      /\ \A j \in DOMAIN c.m.points.items : c.m.points.items[j].k = "obj"

KeyOr(d, key, default) == IF key \in DOMAIN d.m THEN d.m[key] ELSE default

InputContours(t) == KeyOr(t.v, "contours", JList(<<>>)).items
InputPoints(c) == KeyOr(c, "points", JList(<<>>)).items

\* decode fills x = 0, y = 0, type = "line", smooth = false, isClosed =
\* false, points = [], contours = [] for the keys that are missing
DefaultsFilled(t, o) ==
    /\ Len(o.contours) = Len(InputContours(t))
    /\ \A i \in DOMAIN o.contours :
          LET c == InputContours(t)[i] IN
          /\ o.contours[i].is_closed = KeyOr(c, "isClosed", JBool(FALSE))
          /\ Len(o.contours[i].points) = Len(InputPoints(c))
          /\ \A j \in DOMAIN o.contours[i].points :
                LET pd == InputPoints(c)[j]
                    pt == o.contours[i].points[j]
                IN  /\ pt.x = KeyOr(pd, "x", JInt(0))
                    /\ pt.y = KeyOr(pd, "y", JInt(0))
                    /\ pt.type = KeyOr(pd, "type", JStr("line"))
                    /\ pt.smooth = KeyOr(pd, "smooth", JBool(FALSE))

\* encode: x and y always, type iff it is not "line", smooth iff it is
\* true; points and isClosed always
EncodedAs(e, o) ==
    /\ e.k = "obj"
    /\ DOMAIN e.m = {"contours"}
    /\ e.m.contours.k = "list"
    /\ Len(e.m.contours.items) = Len(o.contours)
    /\ \A i \in DOMAIN o.contours :
          LET cd == e.m.contours.items[i] IN
          /\ cd.k = "obj"
          /\ DOMAIN cd.m = {"points", "isClosed"}
          /\ cd.m.isClosed = o.contours[i].is_closed
          /\ cd.m.points.k = "list"
          /\ Len(cd.m.points.items) = Len(o.contours[i].points)
          /\ \A j \in DOMAIN o.contours[i].points :
                LET pd == cd.m.points.items[j]
                    pt == o.contours[i].points[j]
                IN  /\ pd.k = "obj"
                    /\ {"x", "y"} \subseteq DOMAIN pd.m
                    /\ DOMAIN pd.m \subseteq {"x", "y", "type", "smooth"}
                    /\ pd.m.x = pt.x
                    /\ pd.m.y = pt.y
                    /\ "type" \in DOMAIN pd.m <=> pt.type # JStr("line")
                    /\ "type" \in DOMAIN pd.m => pd.m.type = pt.type
                    /\ "smooth" \in DOMAIN pd.m <=> pt.smooth = JBool(TRUE)
                    /\ "smooth" \in DOMAIN pd.m => pd.m.smooth = pt.smooth

\* C7: the `path` of pathTranslate and pathScale gives each point x and y,
\* `type` iff the type is not "line" and `smooth` iff smooth is true, and
\* each contour points and isClosed, also when the input spelled the
\* defaults out; and decode fails on no missing key, filling the defaults.
C7_Codec ==
    /\ (call.op \in {"path_translate", "path_scale"} /\ Decoded /\ Succeeded) =>
          EncodedAs(result.m.path, result_path)
    /\ (call.op \in SimpleOps /\ WellShaped(call.text)) =>
          /\ Decoded
          /\ DefaultsFilled(call.text, path)

\* A point that spells the defaults out and a point with no key at all,
\* in a contour without isClosed: the output has x and y only.
C7_Witness ==
    /\ call.op = "path_translate"
    /\ Decoded
    /\ Succeeded
    /\ WellShaped(call.text)
    /\ Len(InputContours(call.text)) = 1
    /\ "isClosed" \notin DOMAIN InputContours(call.text)[1].m
    /\ Len(InputPoints(InputContours(call.text)[1])) = 2
    /\ LET pts == InputPoints(InputContours(call.text)[1]) IN
          /\ DOMAIN pts[1].m = {"x", "y", "type", "smooth"}
          /\ pts[1].m.type = JStr("line")
          /\ pts[1].m.smooth = JBool(FALSE)
          /\ DOMAIN pts[2].m = {}
    /\ \A j \in 1..2 : DOMAIN result.m.path.m.contours.items[1].m.points.items[j].m = {"x", "y"}

\* ------------------------------------------------------------------ C8
Stable(e) ==
    LET d == Path_from_dict(e) IN d.ok /\ Path_to_dict(d.val) = e

\* C8: encode(decode(encode(o))) = encode(o) for every outline o that
\* decode produced, and for the outlines translate and scale made of one.
C8_RoundTrip ==
    /\ Decoded => Stable(Path_to_dict(path))
    /\ (call.op \in {"path_translate", "path_scale"} /\ Decoded /\ Succeeded) =>
          Stable(result.m.path)

\* Two contours that differ, the first one closed, with a point whose type
\* and smooth are the defaults encode omits and a point where neither is.
C8_Witness ==
    /\ call.op = "path_scale"
    /\ Decoded
    /\ Succeeded
    /\ Len(path.contours) = 2
    /\ path.contours[1].is_closed = JBool(TRUE)
    /\ path.contours[2].is_closed = JBool(FALSE)
    /\ Len(path.contours[1].points) = 1
    /\ Len(path.contours[2].points) = 1
    /\ path.contours[1].points[1].type = JStr("line")
    /\ path.contours[1].points[1].smooth = JBool(FALSE)
    /\ path.contours[2].points[1].type = JStr("curve")
    /\ DOMAIN Path_to_dict(path).m.contours.items[1].m.points.items[1].m = {"x", "y"}

\* ------------------------------------------------------------------ C9
\* C9: over integers, translating by (dx1, dy1) and then by (dx2, dy2) is
\* translating by (dx1 + dx2, dy1 + dy2); translating by (0, 0) changes
\* nothing, and translating back by (-dx1, -dy1) gives the outline back.
C9_TranslateAdds ==
    (call.op = "path_translate" /\ Decoded /\ Succeeded
         /\ AllInts(path) /\ call.a.k = "num" /\ call.b.k = "num") =>
        /\ \A dx2 \in Deltas, dy2 \in Deltas :
              LET twice == Path_translate(result_path, dx2, dy2)
                  once == Path_translate(path, JInt(call.a.lo + dx2.lo),
                                         JInt(call.b.lo + dy2.lo))
              IN  twice.ok /\ once.ok /\ twice.val = once.val
        /\ Path_translate(path, JInt(0), JInt(0)) = Ok(path)
        /\ Path_translate(result_path, JInt(-call.a.lo), JInt(-call.b.lo)) = Ok(path)

\* A translation on both axes of an outline with points in two contours.
C9_Witness ==
    /\ call.op = "path_translate"
    /\ Decoded
    /\ Succeeded
    /\ AllInts(path)
    /\ call.a.k = "num" /\ call.a.lo > 0
    /\ call.b.k = "num" /\ call.b.lo < 0
    /\ Len(path.contours) = 2
    /\ Cardinality(Places(path)) = 2
    /\ At(result_path, <<2, 1>>).x.lo = At(path, <<2, 1>>).x.lo + call.a.lo

\* ----------------------------------------------------------------- C10
\* The operation of the delegating module failed: the libraries are not
\* there, the text is no JSON, or converting or the library call raised.
CoreFailed == "error" \in DOMAIN result.m

\* C10: a boolean path operation of the delegating module that fails
\* returns an envelope with success = false and an `error` string, and one
\* that succeeds returns success = true with the resulting path.
C10_CoreEnvelope ==
    call.op \in CoreOps =>
        /\ result.k = "obj"
        /\ "success" \in DOMAIN result.m
        /\ \/ /\ result.m.success = JBool(FALSE)
              /\ "error" \in DOMAIN result.m
              /\ result.m.error.k = "str"
           \/ /\ result.m.success = JBool(TRUE)
              /\ "error" \notin DOMAIN result.m

\* What the code does instead: a failure is {error: <string>} and nothing
\* else, a success is the path's own mapping, and neither has `success`.
C10_CoreAsCoded ==
    call.op \in CoreOps =>
        /\ result.k = "obj"
        /\ "success" \notin DOMAIN result.m
        /\ \/ DOMAIN result.m = {"error"} /\ result.m.error.k = "str"
           \/ DOMAIN result.m = {"contours"}
        /\ (~available \/ call.text.k = "garbage" \/ call.lib.operation = "raise") => CoreFailed

\* ----------------------------------------------------------------- C11
StatsKeys == {"total_contours", "closed_contours", "open_contours",
              "total_points", "is_empty"}

Failed(ret) == ret.m.success = JBool(FALSE)

\* info is the record {bounds, stats, version} made of what path_bounds (b)
\* and path_validate (v) return on the same input.
Composes(info, b, v) ==
    /\ info.k = "obj"
    /\ DOMAIN info.m = {"bounds", "stats", "version"}
    /\ b.m.success = JBool(TRUE)
    /\ v.m.success = JBool(TRUE)
    /\ info.m.bounds = b.m.bounds
    /\ info.m.stats = v.m.stats
    /\ info.m.stats.k = "obj"
    /\ DOMAIN info.m.stats.m = StatsKeys
    /\ info.m.version = JStr(processor.version)
    /\ (info.m.bounds = JNull) <=> (info.m.stats.m.is_empty = JBool(TRUE))

\* C11: whenever path_info succeeds, info.bounds is the `bounds` of
\* path_bounds and info.stats the complete `stats` of path_validate on the
\* same input, info.version is the processor's version, and info.bounds is
\* null exactly when info.stats says the outline is empty; path_info fails
\* exactly when path_bounds or path_validate fails on that input.
C11_InfoComposes ==
    call.op = "path_info" =>
        /\ Succeeded =>
              Composes(result.m.info, path_bounds(processor, call.text).ret,
                       path_validate(processor, call.text).ret)
        /\ Failed(result) <=>
              \/ Failed(path_bounds(processor, call.text).ret)
              \/ Failed(path_validate(processor, call.text).ret)

\* Two points in two contours, one of them closed: bounds with an extent,
\* and stats that count them.
C11_Witness ==
    /\ call.op = "path_info"
    /\ Decoded
    /\ Succeeded
    /\ Len(path.contours) = 2
    /\ ClosedCount(path) = 1
    /\ Cardinality(Places(path)) = 2
    /\ result.m.info.m.bounds # JNull
    /\ result.m.info.m.stats.m.total_points = JInt(2)
    /\ result.m.info.m.stats.m.closed_contours = JInt(1)

\* ----------------------------------------------------------------- C12
\* The processor as the module makes it when it is imported.
FreshProcessor ==
    IF loaded = "simple" THEN [version |-> "1.0.0-simple"]
    ELSE [version |-> "1.0.0", available |-> available]

\* The call c, issued first on a fresh processor and run with no other call
\* in flight.
FreshResult(c) ==
    CASE c.op = "get_info" -> wasm_get_info(FreshProcessor)
      [] c.op = "path_bounds" -> wasm_path_bounds(FreshProcessor, c.text)
      [] c.op = "path_translate" -> wasm_path_translate(FreshProcessor, c.text, c.a, c.b)
      [] c.op = "path_scale" -> wasm_path_scale(FreshProcessor, c.text, c.a, c.b)
      [] c.op = "path_validate" -> wasm_path_validate(FreshProcessor, c.text)
      [] c.op = "path_info" -> wasm_path_info(FreshProcessor, c.text)

\* C12: over every interleaving of the statements of the calls in flight,
\* failed and raising calls included, the processor keeps the attributes and
\* values it was made with, and what the latest call returned (or raised) is
\* what the same call gives when it is the first on a fresh processor and
\* runs alone, so get_info gives one record before and after any other call.
C12_Stateless ==
    /\ processor = FreshProcessor
    /\ call.op # "none" =>
          [result |-> result, path |-> path, result_path |-> result_path,
           path_a |-> path_a, path_b |-> path_b, output |-> output]
              = FreshResult(call)

\* get_info or path_info returns while another call is in the middle of its
\* method, after a call that raised past its entry point or returned a
\* failure.
C12_Witness ==
    /\ Len(log) >= 2
    /\ \E i \in 1..(Len(log) - 1) : log[i] \in {"raised", "failure"}
    /\ call.op \in {"get_info", "path_info"}
    /\ log[Len(log)] = "success"
    /\ \E t \in 1..MaxThreads :
          /\ frames[t].pc \in {"operate", "answer"}
          /\ frames[t].call.op \in {"path_translate", "path_scale"}

====
